---------------------------- MODULE Spec2Model ----------------------------
(***************************************************************************)
(* Masterblog API (src/backend/backend_app.py): an in-memory list of blog  *)
(* posts behind five Flask handlers (create, list, update, delete,         *)
(* search).                                                                *)
(*                                                                         *)
(* Text is modelled as the sequence of its code points, so that Python's   *)
(* `in` (substring) and `<` (lexicographic order) on str are computed, not *)
(* assumed.  Query parameters that the code only compares with constants   *)
(* (sort, direction) are TLA+ strings.                                     *)
(*                                                                         *)
(* Spec     : the handlers run one at a time, each as one atomic step.     *)
(* ConcSpec : request threads interleave at the statements that read or    *)
(*            write the shared list (app.run serves requests on threads;   *)
(*            the source takes no lock).                                   *)
(***************************************************************************)
EXTENDS Integers, Sequences, FiniteSets

VARIABLES POSTS, request, response, heap, refs, pc, local

vars == <<POSTS, request, response, heap, refs, pc, local>>

seqVars == <<POSTS, request, response>>

concVars == <<heap, refs, pc, local>>

(***************************************************************************)
(* Bounds.                                                                 *)
(***************************************************************************)
\* Create is not taken once it would assign an id above MaxId.
MaxId == 3

(***************************************************************************)
(* Text literals (code points).                                            *)
(***************************************************************************)
\* "First post"
sFirstPost == <<70, 105, 114, 115, 116, 32, 112, 111, 115, 116>>

\* "This is the first post."
sFirstContent == <<84, 104, 105, 115, 32, 105, 115, 32, 116, 104, 101, 32, 102, 105, 114, 115, 116, 32, 112, 111, 115, 116, 46>>

\* "Jerome"
sJerome == <<74, 101, 114, 111, 109, 101>>

\* "2023-06-07"
sDate2023 == <<50, 48, 50, 51, 45, 48, 54, 45, 48, 55>>

\* "Second post"
sSecondPost == <<83, 101, 99, 111, 110, 100, 32, 112, 111, 115, 116>>

\* "This is the second post."
sSecondContent == <<84, 104, 105, 115, 32, 105, 115, 32, 116, 104, 101, 32, 115, 101, 99, 111, 110, 100, 32, 112, 111, 115, 116, 46>>

\* "Savanna"
sSavanna == <<83, 97, 118, 97, 110, 110, 97>>

\* "2024-06-07"
sDate2024 == <<50, 48, 50, 52, 45, 48, 54, 45, 48, 55>>

\* "x"
sX == <<120>>

\* "bad" (a str that is not an ISO date)
sBad == <<98, 97, 100>>

\* "First", "second", "2023"
sFirst == <<70, 105, 114, 115, 116>>

ssecond == <<115, 101, 99, 111, 110, 100>>

s2023 == <<50, 48, 50, 51>>

(***************************************************************************)
(* Module constants of the source.                                         *)
(***************************************************************************)
ID == "id"

TITLE == "title"

CONTENT == "content"

AUTHOR == "author"

DATE == "date"

DIRECTION_ASC == "asc"

DIRECTION_DESC == "desc"

\* The seeded list.
SeedPOSTS ==
    << [id |-> 1, title |-> sFirstPost, content |-> sFirstContent,
        author |-> sJerome, date |-> sDate2023],
       [id |-> 2, title |-> sSecondPost, content |-> sSecondContent,
        author |-> sSavanna, date |-> sDate2024] >>

(***************************************************************************)
(* Python built-ins the handlers use.                                      *)
(***************************************************************************)
\* x in s, for str: x occurs in s as a contiguous, case-sensitive substring.
StrIn(x, s) ==
    \E i \in 0..(Len(s) - Len(x)) : SubSeq(s, i + 1, i + Len(x)) = x

\* a < b on str and on tuples of int: lexicographic, a proper prefix is less.
LexLess(a, b) ==
    \E i \in 1..Len(b) :
        /\ i <= Len(a) + 1
        /\ \A j \in 1..(i - 1) : a[j] = b[j]
        /\ (i = Len(a) + 1 \/ a[i] < b[i])

Reverse(s) == [i \in 1..Len(s) |-> s[Len(s) + 1 - i]]

\* One step of the insertion sort list.sort runs on short lists: x goes
\* after every element that is not greater than it (only < is asked).
InsertStable(sorted, x, keys) ==
    LET later == {i \in 1..Len(sorted) : LexLess(keys[x], keys[sorted[i]])}
        at == IF later = {} THEN Len(sorted) + 1
              ELSE CHOOSE i \in later : \A j \in later : i <= j
    IN SubSeq(sorted, 1, at - 1) \o <<x>> \o SubSeq(sorted, at, Len(sorted))

RECURSIVE SortIndices(_, _, _)
SortIndices(todo, done, keys) ==
    IF todo = <<>> THEN done
    ELSE SortIndices(Tail(todo), InsertStable(done, Head(todo), keys), keys)

\* sorted(items, key=..., reverse=...) with keys[i] the key of items[i]:
\* list.sort reverses the list, sorts it ascending and stable, and reverses
\* the result when reverse is set.
PySorted(items, keys, reverse) ==
    LET idx == [i \in 1..Len(items) |-> i]
        order == IF reverse
                 THEN Reverse(SortIndices(Reverse(idx), <<>>, keys))
                 ELSE SortIndices(idx, <<>>, keys)
    IN [i \in 1..Len(items) |-> items[order[i]]]

\* list.remove(x): drops the first element equal to x; ok is FALSE
\* (ValueError) when no element is equal to x.
ListRemove(list, x) ==
    LET hits == {i \in 1..Len(list) : list[i] = x}
    IN IF hits = {} THEN [ok |-> FALSE, list |-> list]
       ELSE LET at == CHOOSE i \in hits : \A j \in hits : i <= j
            IN [ok |-> TRUE,
                list |-> SubSeq(list, 1, at - 1) \o SubSeq(list, at + 1, Len(list))]

IsDigit(c) == c \in 48..57

Num(s, from, to) ==
    LET RECURSIVE go(_, _)
        go(i, acc) == IF i > to THEN acc ELSE go(i + 1, acc * 10 + (s[i] - 48))
    IN go(from, 0)

DaysInMonth(y, m) ==
    IF m \in {4, 6, 9, 11} THEN 30
    ELSE IF m # 2 THEN 31
    ELSE IF (y % 4 = 0 /\ y % 100 # 0) \/ y % 400 = 0 THEN 29 ELSE 28

\* datetime.date.fromisoformat(s) succeeds on "YYYY-MM-DD" naming a real day
\* (newer interpreters also take other ISO 8601 spellings; none is sent here).
IsIsoDate(s) ==
    /\ Len(s) = 10
    /\ s[5] = 45 /\ s[8] = 45
    /\ \A i \in {1, 2, 3, 4, 6, 7, 9, 10} : IsDigit(s[i])
    /\ Num(s, 1, 4) >= 1
    /\ Num(s, 6, 7) \in 1..12
    /\ Num(s, 9, 10) \in 1..DaysInMonth(Num(s, 1, 4), Num(s, 6, 7))

\* The date value: dates compare as (year, month, day).
fromisoformat(s) == <<Num(s, 1, 4), Num(s, 6, 7), Num(s, 9, 10)>>

(***************************************************************************)
(* Responses.                                                              *)
(***************************************************************************)
\* jsonify(payload), status: payload is a list of posts (a single post is
\* the one-element list; the createdAt wall-clock stamp is left out).
Ok(status, payload) == [status |-> status, code |-> "", body |-> payload]

standard_error_response(status, error_code) ==
    [status |-> status, code |-> error_code, body |-> <<>>]

\* An exception no handler catches: Flask answers 500, outside the envelope.
Unhandled(exc) == [status |-> 500, code |-> exc, body |-> <<>>]

\* A view function that returns None: the handler produced no response.
NoResponse == [status |-> 0, code |-> "NO_RESPONSE", body |-> <<>>]

(***************************************************************************)
(* ItemSchema.  A JSON body is a function from its keys to JSON values     *)
(* [t |-> "str" | "int", s |-> text].                                      *)
(***************************************************************************)
FIELDS == {TITLE, CONTENT, AUTHOR, DATE}

JStr(s) == [t |-> "str", s |-> s]

JInt == [t |-> "int", s |-> <<>>]

\* schema.load(body) raises ValidationError on a missing required field, on
\* a field that is no string, and on a key the schema does not declare.
SchemaErrors(body) ==
    (FIELDS \ DOMAIN body)
        \cup (DOMAIN body \ FIELDS)
        \cup {k \in DOMAIN body \cap FIELDS : body[k].t # "str"}

\* schema.load(body) when it raises nothing.
schema_load(body) == [k \in FIELDS |-> body[k].s]

(***************************************************************************)
(* find_post_by_id: the position of the first post with the id, 0 for None *)
(***************************************************************************)
\* Variant: the comparison post[ID] >= post_id in place of ==.
find_post_by_id_ge(posts, post_id) ==
    LET hits == {i \in 1..Len(posts) : posts[i].id >= post_id}
    IN IF hits = {} THEN 0 ELSE CHOOSE i \in hits : \A j \in hits : i <= j

find_post_by_id(posts, post_id) ==
    LET hits == {i \in 1..Len(posts) : posts[i].id = post_id}
    IN IF hits = {} THEN 0 ELSE CHOOSE i \in hits : \A j \in hits : i <= j

(***************************************************************************)
(* get_posts, POST.                                                        *)
(***************************************************************************)
\* Variant: len(POSTS) + 1 in place of the maximum.
NewIdByLen(posts) == Len(posts) + 1

\* max(post['id'] for post in POSTS) + 1, on a non-empty list.
NewId(posts) ==
    (CHOOSE m \in {posts[i].id : i \in 1..Len(posts)} :
        \A i \in 1..Len(posts) : posts[i].id <= m) + 1

get_posts_POST(posts, body) ==
    IF SchemaErrors(body) # {}
    THEN [POSTS |-> posts,
          response |-> standard_error_response(400, "VALIDATION_ERROR_MISSING_TITLE_CONTENT")]
    ELSE IF Len(posts) = 0
    THEN \* max() of an empty sequence: ValueError, not a ValidationError
         [POSTS |-> posts, response |-> Unhandled("ValueError")]
    ELSE LET new_data == schema_load(body)
             new_post == [id |-> NewId(posts), title |-> new_data[TITLE],
                          content |-> new_data[CONTENT], author |-> new_data[AUTHOR],
                          date |-> new_data[DATE]]
         IN [POSTS |-> Append(posts, new_post), response |-> Ok(201, <<new_post>>)]

(***************************************************************************)
(* get_posts, GET.  args maps the supplied query parameters to values.     *)
(***************************************************************************)
options_directions == {DIRECTION_ASC, DIRECTION_DESC}

options_sort == {CONTENT, TITLE, AUTHOR, DATE}

\* if x: a parameter that is supplied and not "".
Truthy(args, k) == k \in DOMAIN args /\ Len(args[k]) > 0

\* Variant: "desc" as the ascending result read backwards, sorted(...)[::-1].
SortedPostsBackwards(posts, sort, direction) ==
    LET keys == [i \in 1..Len(posts) |->
                    IF sort = DATE THEN fromisoformat(posts[i][sort]) ELSE posts[i][sort]]
        asc == PySorted(posts, keys, FALSE)
    IN IF sort = DATE /\ \E i \in 1..Len(posts) : ~IsIsoDate(posts[i][sort])
       THEN Unhandled("ValueError")
       ELSE Ok(200, IF direction = "desc" THEN Reverse(asc) ELSE asc)

\* The four sorted(...) branches.
SortedPosts(posts, sort, direction) ==
    IF sort = DATE
    THEN IF \E i \in 1..Len(posts) : ~IsIsoDate(posts[i][sort])
         THEN Unhandled("ValueError")
         ELSE Ok(200, PySorted(posts,
                               [i \in 1..Len(posts) |-> fromisoformat(posts[i][sort])],
                               direction = "desc"))
    ELSE Ok(200, PySorted(posts, [i \in 1..Len(posts) |-> posts[i][sort]],
                          direction = "desc"))

get_posts_GET(posts, args) ==
    IF "direction" \notin DOMAIN args /\ "sort" \notin DOMAIN args
    THEN Ok(200, posts)
    ELSE IF ~("direction" \in DOMAIN args /\ args["direction"] \in options_directions)
    THEN standard_error_response(400, "VALIDATION_ERROR_INVALID_DIRECTION")
    ELSE IF ~("sort" \in DOMAIN args /\ args["sort"] \in options_sort)
    THEN standard_error_response(400, "VALIDATION_ERROR_INVALID_SORT")
    ELSE IF Truthy(args, "sort") /\ Truthy(args, "direction")
    THEN SortedPosts(posts, args["sort"], args["direction"])
    ELSE NoResponse

(***************************************************************************)
(* delete_post.                                                            *)
(***************************************************************************)
delete_post(posts, id) ==
    LET at == find_post_by_id(posts, id)
    IN IF at = 0
       THEN [POSTS |-> posts, response |-> standard_error_response(404, "RESOURCE_NOT_FOUND")]
       ELSE LET r == ListRemove(posts, posts[at])
            IN IF r.ok THEN [POSTS |-> r.list, response |-> Ok(200, <<>>)]
               ELSE [POSTS |-> posts, response |-> Unhandled("ValueError")]

(***************************************************************************)
(* handle_post (PUT).                                                      *)
(***************************************************************************)
\* new_data.get(k, post[k])
DictGet(new_data, k, default) == IF k \in DOMAIN new_data THEN new_data[k] ELSE default

\* The four assignments to the post found.
UpdatedPost(post, new_data) ==
    [post EXCEPT ![TITLE] = DictGet(new_data, TITLE, post[TITLE]),
                 ![CONTENT] = DictGet(new_data, CONTENT, post[CONTENT]),
                 ![AUTHOR] = DictGet(new_data, AUTHOR, post[AUTHOR]),
                 ![DATE] = DictGet(new_data, DATE, post[DATE])]

handle_post(posts, id, body) ==
    LET at == find_post_by_id(posts, id)
    IN IF at = 0
       THEN [POSTS |-> posts, response |-> standard_error_response(404, "RESOURCE_NOT_FOUND")]
       ELSE IF SchemaErrors(body) # {}
       THEN [POSTS |-> posts,
             response |-> standard_error_response(400, "VALIDATION_ERROR_MISSING_TITLE_CONTENT")]
       ELSE LET post == UpdatedPost(posts[at], schema_load(body))
            IN [POSTS |-> [posts EXCEPT ![at] = post], response |-> Ok(200, <<post>>)]

(***************************************************************************)
(* search_posts.                                                           *)
(***************************************************************************)
\* [post for post in POSTS if all(args[k] in post[k] for k in keys)]
Filter(posts, args, keys) ==
    LET RECURSIVE go(_)
        go(i) == IF i > Len(posts) THEN <<>>
                 ELSE (IF \A k \in keys : StrIn(args[k], posts[i][k])
                       THEN <<posts[i]>> ELSE <<>>) \o go(i + 1)
    IN go(1)

\* The stages in source order; each returns when it is entered and its
\* filtered list is not empty.
SearchStages ==
    << {TITLE, CONTENT}, {TITLE, AUTHOR}, {TITLE, DATE},
       {TITLE, CONTENT, AUTHOR, DATE}, {TITLE}, {CONTENT}, {AUTHOR}, {DATE} >>

search_posts(posts, args) ==
    LET Entered(n) == \A k \in SearchStages[n] : Truthy(args, k)
        Hit(n) == Entered(n) /\ Filter(posts, args, SearchStages[n]) # <<>>
        hits == {n \in 1..Len(SearchStages) : Hit(n)}
    IN IF hits = {} THEN Ok(200, <<>>)
       ELSE LET n == CHOOSE m \in hits : \A o \in hits : m <= o
            IN Ok(200, Filter(posts, args, SearchStages[n]))

(***************************************************************************)
(* Requests the model sends.                                               *)
(***************************************************************************)
\* A body that passes the schema.
FullBody ==
    [k \in FIELDS |->
        CASE k = TITLE -> JStr(sFirstPost)
          [] k = CONTENT -> JStr(sX)
          [] k = AUTHOR -> JStr(sJerome)
          [] OTHER -> JStr(sDate2023)]

Restrict(f, S) == [k \in S |-> f[k]]

\* The sets of fields a body supplies: none, each field alone, and a chain
\* up to all four.
SuppliedFields ==
    {{}, {TITLE}, {CONTENT}, {AUTHOR}, {DATE}, {TITLE, CONTENT},
     {TITLE, CONTENT, AUTHOR}, FIELDS}

\* The JSON objects sent to Create and Update: FullBody cut down to each
\* of SuppliedFields, a full body whose date is no ISO date, a full body
\* whose title is a number, and a full body that also carries an id.
Bodies ==
    {Restrict(FullBody, S) : S \in SuppliedFields}
        \cup {[FullBody EXCEPT ![DATE] = JStr(sBad)],
              [FullBody EXCEPT ![TITLE] = JInt],
              [k \in FIELDS \cup {ID} |-> IF k = ID THEN JInt ELSE FullBody[k]]}

RequestIds == 1..MaxId

ListArgs ==
    UNION { {a \in [S -> {"title", "content", "author", "date", "id", "asc", "desc", "up"}] :
                /\ ("sort" \in S => a["sort"] \in {"title", "content", "author", "date", "id"})
                /\ ("direction" \in S => a["direction"] \in {"asc", "desc", "up"})} :
            S \in SUBSET {"sort", "direction"} }

CriteriaValues ==
    [k \in FIELDS |->
        CASE k = TITLE -> {<<>>, sFirst}
          [] k = CONTENT -> {ssecond}
          [] k = AUTHOR -> {sJerome}
          [] OTHER -> {s2023}]

SearchArgs ==
    UNION { {a \in [S -> UNION {CriteriaValues[k] : k \in S}] :
                \A k \in S : a[k] \in CriteriaValues[k]} :
            S \in SUBSET FIELDS }

NoRequest == [op |-> "none", id |-> 0, body |-> <<>>, args |-> <<>>]

(***************************************************************************)
(* Spec: one request at a time.                                            *)
(***************************************************************************)
Init ==
    /\ POSTS = SeedPOSTS
    /\ request = NoRequest
    /\ response = [status |-> 0, code |-> "", body |-> <<>>]
    /\ heap = <<>>
    /\ refs = <<>>
    /\ pc = <<>>
    /\ local = <<>>

Create ==
    \E body \in Bodies :
        /\ (SchemaErrors(body) = {} /\ Len(POSTS) > 0) => NewId(POSTS) <= MaxId
        /\ LET r == get_posts_POST(POSTS, body)
           IN /\ POSTS' = r.POSTS
              /\ response' = r.response
        /\ request' = [op |-> "create", id |-> 0, body |-> body, args |-> <<>>]
        /\ UNCHANGED concVars

List ==
    \E args \in ListArgs :
        /\ response' = get_posts_GET(POSTS, args)
        /\ request' = [op |-> "list", id |-> 0, body |-> <<>>, args |-> args]
        /\ UNCHANGED <<POSTS, heap, refs, pc, local>>

Update ==
    \E id \in RequestIds, body \in Bodies :
        /\ LET r == handle_post(POSTS, id, body)
           IN /\ POSTS' = r.POSTS
              /\ response' = r.response
        /\ request' = [op |-> "update", id |-> id, body |-> body, args |-> <<>>]
        /\ UNCHANGED concVars

Delete ==
    \E id \in RequestIds :
        /\ LET r == delete_post(POSTS, id)
           IN /\ POSTS' = r.POSTS
              /\ response' = r.response
        /\ request' = [op |-> "delete", id |-> id, body |-> <<>>, args |-> <<>>]
        /\ UNCHANGED concVars

Search ==
    \E args \in SearchArgs :
        /\ response' = search_posts(POSTS, args)
        /\ request' = [op |-> "search", id |-> 0, body |-> <<>>, args |-> args]
        /\ UNCHANGED <<POSTS, heap, refs, pc, local>>

Next == Create \/ List \/ Update \/ Delete \/ Search

Spec == Init /\ [][Next]_vars

(***************************************************************************)
(* ConcSpec: request threads over the shared list.  A post is a dict       *)
(* object: heap maps each live object to its contents, refs is the list    *)
(* POSTS as the objects it holds, and a handler's local `post` is an       *)
(* object, so that a mutation through it is seen by every holder.  A       *)
(* thread serves one request ("idle" until it arrives, "done" once it is  *)
(* answered) and gives up control between the statements below; each       *)
(* statement that touches the list runs whole.                             *)
(***************************************************************************)
\* Number of requests in flight, each served once by a thread of its own.
NThreads == 3

Threads == 1..NThreads

ConcBodies ==
    {FullBody, [FullBody EXCEPT ![DATE] = JStr(sBad)], Restrict(FullBody, {TITLE})}

\* The list POSTS as the handlers read it.
ConcPOSTS == [i \in 1..Len(refs) |-> heap[refs[i]]]

Idle == [op |-> "none", id |-> 0, body |-> <<>>, post |-> 0, new |-> <<>>,
         inList |-> TRUE, response |-> [status |-> 0, code |-> "", body |-> <<>>]]

\* A new object's identity.
Fresh(h) == CHOOSE o \in 1..(Cardinality(DOMAIN h) + 1) :
                o \notin DOMAIN h /\ \A q \in 1..(o - 1) : q \in DOMAIN h

\* Objects still referenced by the list or by a running handler.
Collect(h, list, loc) ==
    LET live == {list[i] : i \in 1..Len(list)} \cup ({loc[t].post : t \in Threads} \ {0})
    IN [o \in live |-> h[o]]

ConcInit ==
    /\ POSTS = SeedPOSTS
    /\ request = NoRequest
    /\ response = [status |-> 0, code |-> "", body |-> <<>>]
    /\ heap = [o \in {1, 2} |-> SeedPOSTS[o]]
    /\ refs = <<1, 2>>
    /\ pc = [t \in Threads |-> "idle"]
    /\ local = [t \in Threads |-> Idle]

Finish(t, loc) ==
    /\ pc' = [pc EXCEPT ![t] = "done"]
    /\ local' = [local EXCEPT ![t] = loc]

\* get_posts POST, lines 150-153: validate, then read the list for new_id.
CreateStart(t) ==
    \E body \in ConcBodies :
        /\ pc[t] = "idle"
        /\ LET start == [Idle EXCEPT !.op = "create", !.body = body]
           IN IF SchemaErrors(body) # {}
              THEN Finish(t, [start EXCEPT !.response =
                        standard_error_response(400, "VALIDATION_ERROR_MISSING_TITLE_CONTENT")])
              ELSE IF Len(refs) = 0
              THEN Finish(t, [start EXCEPT !.response = Unhandled("ValueError")])
              ELSE /\ NewId(ConcPOSTS) <= MaxId
                   /\ pc' = [pc EXCEPT ![t] = "create_append"]
                   /\ local' = [local EXCEPT ![t] =
                        [start EXCEPT !.new =
                            [id |-> NewId(ConcPOSTS), title |-> schema_load(body)[TITLE],
                             content |-> schema_load(body)[CONTENT],
                             author |-> schema_load(body)[AUTHOR],
                             date |-> schema_load(body)[DATE]]]]
        /\ UNCHANGED <<heap, refs, seqVars>>

\* get_posts POST, lines 155-157: POSTS.append(new_post).
CreateAppend(t) ==
    /\ pc[t] = "create_append"
    /\ LET o == Fresh(heap)
       IN /\ heap' = [q \in DOMAIN heap \cup {o} |-> IF q = o THEN local[t].new ELSE heap[q]]
          /\ refs' = Append(refs, o)
    /\ Finish(t, [local[t] EXCEPT !.response = Ok(201, <<local[t].new>>)])
    /\ UNCHANGED seqVars

\* find_post_by_id, then the 404 return or the step that uses the post.
Find(t, op, id, body, then) ==
    LET at == find_post_by_id(ConcPOSTS, id)
        start == [Idle EXCEPT !.op = op, !.id = id, !.body = body]
    IN IF at = 0
       THEN Finish(t, [start EXCEPT !.response =
                          standard_error_response(404, "RESOURCE_NOT_FOUND")])
       ELSE IF op = "update" /\ SchemaErrors(body) # {}
       THEN Finish(t, [start EXCEPT !.response =
                          standard_error_response(400, "VALIDATION_ERROR_MISSING_TITLE_CONTENT")])
       ELSE /\ pc' = [pc EXCEPT ![t] = then]
            /\ local' = [local EXCEPT ![t] = [start EXCEPT !.post = refs[at]]]

\* delete_post, lines 254-265.
DeleteFind(t) ==
    \E id \in RequestIds :
        /\ pc[t] = "idle"
        /\ Find(t, "delete", id, <<>>, "delete_remove")
        /\ UNCHANGED <<heap, refs, seqVars>>

\* delete_post, lines 267-270: POSTS.remove(post) drops the first element
\* that is the object or equals it; ValueError when there is none.
DeleteRemove(t) ==
    /\ pc[t] = "delete_remove"
    /\ LET post == local[t].post
           hits == {i \in 1..Len(refs) : refs[i] = post \/ heap[refs[i]] = heap[post]}
           at == CHOOSE i \in hits : \A j \in hits : i <= j
           done == [local[t] EXCEPT !.post = 0]
       IN IF hits = {}
          THEN /\ refs' = refs
               /\ Finish(t, [done EXCEPT !.response = Unhandled("ValueError")])
          ELSE /\ refs' = SubSeq(refs, 1, at - 1) \o SubSeq(refs, at + 1, Len(refs))
               /\ Finish(t, [done EXCEPT !.response = Ok(200, <<>>)])
    /\ heap' = Collect(heap, refs', local')
    /\ UNCHANGED seqVars

\* handle_post, lines 293-316.
UpdateFind(t) ==
    \E id \in RequestIds, body \in ConcBodies :
        /\ pc[t] = "idle"
        /\ Find(t, "update", id, body, "update_mutate")
        /\ UNCHANGED <<heap, refs, seqVars>>

\* handle_post, lines 318-323: the assignments to the post found earlier.
\* inList records whether the list still held it then.
UpdateMutate(t) ==
    /\ pc[t] = "update_mutate"
    /\ LET o == local[t].post
           post == UpdatedPost(heap[o], schema_load(local[t].body))
       IN /\ Finish(t, [local[t] EXCEPT !.post = 0,
                                       !.inList = \E i \in 1..Len(refs) : refs[i] = o,
                                       !.response = Ok(200, <<post>>)])
          /\ heap' = Collect([heap EXCEPT ![o] = post], refs, local')
    /\ UNCHANGED <<refs, seqVars>>

ConcNext ==
    \E t \in Threads :
        \/ CreateStart(t)
        \/ CreateAppend(t)
        \/ DeleteFind(t)
        \/ DeleteRemove(t)
        \/ UpdateFind(t)
        \/ UpdateMutate(t)

ConcSpec == ConcInit /\ [][ConcNext]_vars

(***************************************************************************)
(* Properties.                                                             *)
(***************************************************************************)
IdsOf(posts) == [i \in 1..Len(posts) |-> posts[i].id]

DistinctIds(posts) ==
    \A i, j \in 1..Len(posts) : i # j => posts[i].id # posts[j].id

HasId(posts, id) == \E i \in 1..Len(posts) : posts[i].id = id

\* The posts whose id is not id, in list order.
Without(posts, id) ==
    LET Keep(p) == p.id # id IN SelectSeq(posts, Keep)

\* A body with exactly the four required fields, each a string.
AllFieldsAsStrings(body) ==
    DOMAIN body = FIELDS /\ \A k \in FIELDS : body[k].t = "str"

\* A body with any of the four fields and nothing else, each a string.
SomeFieldsAsStrings(body) ==
    DOMAIN body \subseteq FIELDS /\ \A k \in DOMAIN body : body[k].t = "str"

\* C1: a Create that supplies all required fields as strings answers with
\* a post whose id is above every id the collection held, and the
\* collection becomes the old one with exactly that post appended.
C1_CreateAppendsGreaterId ==
    [][(request'.op = "create" /\ AllFieldsAsStrings(request'.body))
          => /\ response'.status = 201
             /\ Len(response'.body) = 1
             /\ \A i \in 1..Len(POSTS) : response'.body[1].id > POSTS[i].id
             /\ POSTS' = Append(POSTS, response'.body[1])]_vars

\* C2: the ids in the collection are pairwise distinct in every state, and
\* every step keeps the id of each post that stays: the ids of the new
\* list are those of the old one with at most one appended or one dropped,
\* and an Update leaves the list of ids as it was.
C2_IdsUniqueAndImmutable ==
    /\ DistinctIds(POSTS)
    /\ [][/\ DistinctIds(POSTS')
          /\ \/ IdsOf(POSTS') = IdsOf(POSTS)
             \/ /\ request'.op = "create"
                /\ Len(POSTS') = Len(POSTS) + 1
                /\ SubSeq(IdsOf(POSTS'), 1, Len(POSTS)) = IdsOf(POSTS)
             \/ /\ request'.op = "delete"
                /\ IdsOf(POSTS') = IdsOf(Without(POSTS, request'.id))
          /\ request'.op = "update" => IdsOf(POSTS') = IdsOf(POSTS)]_vars

\* C2 witness: an Update has succeeded on a collection that went through a
\* Delete of a seeded post and a Create.
C2_Witness ==
    /\ request.op = "update"
    /\ response.status = 200
    /\ Len(POSTS) >= 2
    /\ ~HasId(POSTS, 1)
    /\ HasId(POSTS, 3)

\* C3: on the empty collection a Create with all required fields succeeds
\* and appends the post.
C3_CreateOnEmptySucceeds ==
    [][(Len(POSTS) = 0 /\ request'.op = "create" /\ AllFieldsAsStrings(request'.body))
          => /\ response'.status = 201
             /\ Len(POSTS') = 1]_vars

\* The posts, in list order, that contain every criterion of K.
Conjunction(posts, args, K) ==
    LET Match(p) == \A k \in K : StrIn(args[k], p[k]) IN SelectSeq(posts, Match)

\* C4: Search answers exactly the posts that match every non-empty
\* criterion supplied, and the empty list when there is none.
C4_SearchIsConjunction ==
    request.op = "search" =>
        LET K == {k \in DOMAIN request.args : request.args[k] # <<>>}
        IN /\ response.status = 200
           /\ response.body = IF K = {} THEN <<>> ELSE Conjunction(POSTS, request.args, K)

\* C5: an Update of an existing id with any non-empty subset of the four
\* fields, as strings, succeeds, sets exactly the supplied fields of that post, leaves
\* everything else as it was and answers the updated post.
C5_UpdateAcceptsAnySubset ==
    [][(request'.op = "update" /\ HasId(POSTS, request'.id)
            /\ SomeFieldsAsStrings(request'.body) /\ DOMAIN request'.body # {})
          => LET at == CHOOSE i \in 1..Len(POSTS) : POSTS[i].id = request'.id
                 new == [k \in DOMAIN POSTS[at] |->
                            IF k \in DOMAIN request'.body THEN request'.body[k].s
                            ELSE POSTS[at][k]]
             IN /\ response'.status = 200
                /\ response'.body = <<new>>
                /\ POSTS' = [POSTS EXCEPT ![at] = new]]_vars

\* C6: a Delete of a present id drops exactly the post with that id and
\* keeps the others in order; a Delete of an absent id answers 404 and
\* changes nothing; a Delete right after a successful Delete of the same
\* id answers 404.
C6_DeleteExactlyOne ==
    [][/\ request'.op = "delete" =>
            IF HasId(POSTS, request'.id)
            THEN /\ response'.status = 200
                 /\ POSTS' = Without(POSTS, request'.id)
                 /\ Len(POSTS') = Len(POSTS) - 1
            ELSE /\ response'.status = 404
                 /\ response'.code = "RESOURCE_NOT_FOUND"
                 /\ POSTS' = POSTS
       /\ (/\ request.op = "delete" /\ response.status = 200
           /\ request'.op = "delete" /\ request'.id = request.id)
            => response'.status = 404]_vars

\* C6 witness: Delete(2) has just answered 404 on a collection that still
\* holds posts 1 and 3 in order, post 2 having been deleted before.
C6_Witness ==
    /\ request.op = "delete"
    /\ request.id = 2
    /\ response.status = 404
    /\ IdsOf(POSTS) = <<1, 3>>

\* C9: List with a text sort key and a valid direction answers a
\* permutation of the collection, non-decreasing by that attribute for
\* "asc" and non-increasing for "desc", posts with equal keys in their
\* collection order, and leaves the collection as it was.
C9_ListSortedStable ==
    [][(/\ request'.op = "list"
        /\ DOMAIN request'.args = {"sort", "direction"}
        /\ request'.args["sort"] \in {TITLE, CONTENT, AUTHOR}
        /\ request'.args["direction"] \in {DIRECTION_ASC, DIRECTION_DESC})
          => LET out == response'.body
                 key == request'.args["sort"]
                 Pos(p) == CHOOSE i \in 1..Len(POSTS) : POSTS[i] = p
             IN /\ POSTS' = POSTS
                /\ response'.status = 200
                /\ Len(out) = Len(POSTS)
                /\ \A i \in 1..Len(POSTS) : \E j \in 1..Len(out) : out[j] = POSTS[i]
                /\ \A i, j \in 1..Len(out) :
                      i < j =>
                        /\ IF request'.args["direction"] = DIRECTION_ASC
                           THEN ~LexLess(out[j][key], out[i][key])
                           ELSE ~LexLess(out[i][key], out[j][key])
                        /\ out[i][key] = out[j][key] => Pos(out[i]) < Pos(out[j])]_vars

\* C9 witness: a descending List by title has been answered for three
\* posts of which the first and the last share a title.
C9_Witness ==
    /\ request.op = "list"
    /\ DOMAIN request.args = {"sort", "direction"}
    /\ request.args["sort"] = TITLE
    /\ request.args["direction"] = DIRECTION_DESC
    /\ Len(POSTS) = 3
    /\ POSTS[1].title = POSTS[3].title
    /\ POSTS[2].title # POSTS[1].title
    /\ response.status = 200

\* C10: every List request is answered: all posts in collection order
\* when neither parameter is supplied, 400 INVALID_DIRECTION when the
\* direction is absent or not asc/desc, else 400 INVALID_SORT when the sort
\* is absent or not a sortable attribute, else 200 with the posts.
C10_ListAlwaysAnswers ==
    request.op = "list" =>
        LET a == request.args
            dirOk == "direction" \in DOMAIN a /\ a["direction"] \in {"asc", "desc"}
            sortOk == "sort" \in DOMAIN a /\ a["sort"] \in {"title", "content", "author", "date"}
        IN IF DOMAIN a = {}
           THEN response.status = 200 /\ response.body = POSTS
           ELSE IF ~dirOk
           THEN response.status = 400 /\ response.code = "VALIDATION_ERROR_INVALID_DIRECTION"
           ELSE IF ~sortOk
           THEN response.status = 400 /\ response.code = "VALIDATION_ERROR_INVALID_SORT"
           ELSE response.status = 200 /\ Len(response.body) = Len(POSTS)

\* C7: the collection never holds two posts with the same id, whatever the
\* interleaving of the requests.
C7_ConcurrentCreatesDistinctIds == DistinctIds(ConcPOSTS)

\* C8: no Delete or Update ends in an unhandled error, and an Update that
\* answers success mutated a post the collection still held.
C8_DeleteUpdateRacesResolved ==
    \A t \in Threads :
        (pc[t] = "done" /\ local[t].op \in {"delete", "update"})
            => /\ local[t].response.status # 500
               /\ (local[t].op = "update" /\ local[t].response.status = 200)
                    => local[t].inList

=============================================================================
